---- MODULE Spec2Model ----
(***************************************************************************)
(* Memory chat bot: the /api/chat turn flow of the server over the         *)
(* file-backed vector store (vector-storage.js).                           *)
(*                                                                         *)
(* One action is one run of handler code between two suspensions on        *)
(* network I/O (the embeddings request of getEmbedding, the completion     *)
(* request of callAPI).  An await on a promise that is already settled     *)
(* resumes in the same microtask drain, before any other request's I/O     *)
(* callback, so it is no interleaving point.                               *)
(*                                                                         *)
(* Text is modelled as a sequence of tokens: string concatenation is \o,   *)
(* Array.join(sep) interleaves the separator token.                        *)
(***************************************************************************)
EXTENDS Integers, Sequences, FiniteSets, TLC

VARIABLES
    messages,          \* vector-storage.js `messages` (= messages.json, saved on every change)
    memories,          \* vector-storage.js `memories` (= memories.json)
    sessions,          \* vector-storage.js `sessions` Map (= sessions.json)
    messageIdCounter,  \* vector-storage.js `messageIdCounter`
    clock,             \* the value Date.now() returns
    req,               \* the in-flight /api/chat requests: position and locals of each
    passes,            \* history: every summarization pass that passed the size guard
    faults,            \* history: number of failed completion calls so far
    overlaps,          \* history: number of requests admitted while another was in flight
    switches,          \* history: number of requests for another session than the one before
    lastSession,       \* history: the session of the latest request
    found              \* the outcome of the latest /api/search request

vars == <<messages, memories, sessions, messageIdCounter, clock, req, passes, faults,
          overlaps, switches, lastSession, found>>

(***************************************************************************)
(* Program constants (config.js).                                          *)
(***************************************************************************)
MAX_SHORT_TERM_ROUNDS == 6
SUMMARY_TRIGGER_ROUNDS == 10
\* generateSummary: `if (unsummarized.length < 5) return;`
MinBatch == 5

(***************************************************************************)
(* Bounds of the model.                                                    *)
(***************************************************************************)
\* messages in the store (loaded and appended) of the concurrent specification
MaxMsgs == 13
\* messages in the store (loaded and appended) of the sequential specification
MaxSeqMsgs == 21
\* messages found in messages.json at process start
MaxLoaded == 9
\* irregular events in one behaviour: failed completion calls, requests
\* admitted while another is in flight, requests for another session than
\* the one before
MaxEvents == 2
\* the limits getRecentHistory is checked with, besides the window size
MaxLimit == 4
\* the same limits for the specification that starts from a reloaded store
MaxReloadMsgs == 27
MaxReloadEvents == 5
\* irregular events in one behaviour of the specification of overlapping requests
MaxOverlapEvents == 1
\* messages appended, and irregular events, in the specifications with search
MaxSearchAppends == 3
MaxSearchEvents == 2
\* the limits of a search in the specification with a serving endpoint
MaxEmbedLimit == 1
\* messages appended, and irregular events, in that specification
MaxEmbedAppends == 2
MaxEmbedEvents == 1
\* messages appended, and irregular events, in the specification with a
\* millisecond clock
MaxTieAppends == 4
MaxTieEvents == 2
MaxDirectMsgs == 10
MaxDirectEvents == 1
MaxFreshMsgs == 11
MaxFreshEvents == 2

Sessions == {"s1", "s2"}
Reqs == {1, 2}

\* what a client may send, what the completion endpoint may answer
Contents == {<<"hi">>}
Replies == {<<"re">>}
Summaries == {<<"S1">>, <<"S2">>}

SystemPrompt == <<"PERSONA">>
SummaryHeader == <<"SUMMARY_HEADER">>
NoText == <<>>

(***************************************************************************)
(* Sequence helpers that stand for Array.prototype methods.                *)
(***************************************************************************)
\* Array.prototype.reverse
Reverse(s) == [i \in 1..Len(s) |-> s[Len(s) + 1 - i]]

\* Array.prototype.slice(0, n)
Slice0(s, n) == SubSeq(s, 1, IF n < Len(s) THEN n ELSE Len(s))

\* Array.prototype.join(sep) over token sequences
RECURSIVE Join(_, _)
Join(texts, sep) ==
    IF Len(texts) = 0 THEN <<>>
    ELSE IF Len(texts) = 1 THEN texts[1]
    ELSE texts[1] \o sep \o Join(Tail(texts), sep)

(***************************************************************************)
(* Text as the code reads it: a text is a sequence of words, a word is a   *)
(* run of UTF-16 code units.  "ni" stands for one CJK ideograph (U+4F60),  *)
(* "ih" is "hi" with its letters swapped.                                  *)
(***************************************************************************)
CharCodes(word) ==
    CASE word = "hi" -> <<104, 105>>
      [] word = "ih" -> <<105, 104>>
      [] word = "re" -> <<114, 101>>
      [] word = "S1" -> <<83, 49>>
      [] word = "S2" -> <<83, 50>>
      [] word = "ni" -> <<20320>>

\* the code units of a text: text.charCodeAt(i) for i = 0..text.length-1
RECURSIVE Codes(_)
Codes(text) ==
    IF Len(text) = 0 THEN <<>> ELSE CharCodes(Head(text)) \o Codes(Tail(text))

\* estimateTokens: Math.ceil(chineseChars / 1.5 + otherChars / 4), which is
\* the ceiling of (8 * chineseChars + 3 * otherChars) / 12
estimateTokens(text) ==
    LET codes == Codes(text)
        chineseChars == Cardinality({i \in 1..Len(codes) :
                                        codes[i] >= 19968 /\ codes[i] <= 40869})
        otherChars == Len(codes) - chineseChars
    IN  (8 * chineseChars + 3 * otherChars + 11) \div 12

(***************************************************************************)
(* Embedding values.  A JavaScript array of numbers is kept as its length  *)
(* (dim) and its non-zero entries (nz, index -> value, indices from 0);    *)
(* `undefined` is the value with defined = FALSE.                          *)
(***************************************************************************)
FALLBACK_DIM == 128

Undefined == [defined |-> FALSE, dim |-> 0, nz |-> [i \in {} |-> 0]]

Vector(dim, nz) == [defined |-> TRUE, dim |-> dim, nz |-> nz]

\* simpleEmbedding: count the code units per bucket (charCode % 128), then
\* divide by the magnitude (or by 1 when it is 0).  The entries are kept
\* before that division: a positive factor, which cosineSimilarity cancels.
simpleEmbedding(text) ==
    LET codes == Codes(text)
        buckets == {codes[i] % FALLBACK_DIM : i \in 1..Len(codes)}
    IN  Vector(FALLBACK_DIM,
               [b \in buckets |->
                   Cardinality({i \in 1..Len(codes) : codes[i] % FALLBACK_DIM = b})])

\* What the embeddings endpoint can answer to one request:
\*   refused     fetch rejects (transport failure)
\*   status      a response with !response.ok
\*   unparsable  response.json() rejects
\*   nodata      a JSON body without data[0]: data.data[0].embedding throws
\*   novector    a JSON body whose data[0] has no embedding member
\*   vector      a JSON body with data[0].embedding = body
EmbedFailures == {[kind |-> k, body |-> Undefined] :
                     k \in {"refused", "status", "unparsable", "nodata"}}
EmbedNoVector == [kind |-> "novector", body |-> Undefined]
\* vectors of the provider's model: another length than the fallback's
PROVIDER_DIM == 1536
ProviderVectors == {Vector(PROVIDER_DIM, (0 :> 1)),
                    Vector(PROVIDER_DIM, (0 :> 1) @@ (1 :> 1))}
EmbedVectors == {[kind |-> "vector", body |-> v] : v \in ProviderVectors}

\* getEmbedding(text) when the endpoint answers `response`
getEmbedding(text, response) ==
    IF response.kind \in {"refused", "status", "unparsable", "nodata"}
    THEN simpleEmbedding(text)
    ELSE response.body

\* the sum of f[i] over the indices in S
RECURSIVE SumOver(_, _)
SumOver(f, S) ==
    IF S = {} THEN 0
    ELSE LET i == CHOOSE j \in S : TRUE
         IN  f[i] + SumOver(f, S \ {i})

\* cosineSimilarity(vecA, vecB): the loop runs over vecA's indices.  The
\* result is kept exactly, as the pair (num, den) of its square
\* dotProduct^2 / (normA * normB); entries in the model are not negative, so
\* the square orders as the value does.
\*   throw  vecA is undefined (vecA.length), or vecB is and the loop runs
\*   nan    an entry of vecB is missing (vecA is longer), or 0 / 0
cosineSimilarity(vecA, vecB) ==
    IF ~vecA.defined THEN [kind |-> "throw", num |-> 0, den |-> 1]
    ELSE IF vecA.dim = 0 THEN [kind |-> "nan", num |-> 0, den |-> 1]
    ELSE IF ~vecB.defined THEN [kind |-> "throw", num |-> 0, den |-> 1]
    ELSE IF vecA.dim > vecB.dim THEN [kind |-> "nan", num |-> 0, den |-> 1]
    ELSE LET inA == DOMAIN vecA.nz
             inB == {i \in DOMAIN vecB.nz : i < vecA.dim}
             dotProduct == SumOver([i \in inA \cap inB |-> vecA.nz[i] * vecB.nz[i]],
                                   inA \cap inB)
             normA == SumOver([i \in inA |-> vecA.nz[i] * vecA.nz[i]], inA)
             normB == SumOver([i \in inB |-> vecB.nz[i] * vecB.nz[i]], inB)
         IN  IF normA * normB = 0 THEN [kind |-> "nan", num |-> 0, den |-> 1]
             ELSE [kind |-> "num", num |-> dotProduct * dotProduct,
                   den |-> normA * normB]

\* a.similarity >= b.similarity, as JavaScript evaluates it (false with NaN)
SimilarityGeq(a, b) ==
    /\ a.kind = "num"
    /\ b.kind = "num"
    /\ a.num * b.den >= b.num * a.den

\* the sign of the comparator (a, b) => b.similarity - a.similarity; a NaN
\* difference counts as 0 in Array.prototype.sort
CompareSimilarity(a, b) ==
    IF a.similarity.kind # "num" \/ b.similarity.kind # "num" THEN 0
    ELSE LET diff == b.similarity.num * a.similarity.den
                         - a.similarity.num * b.similarity.den
         IN  IF diff > 0 THEN 1 ELSE IF diff < 0 THEN -1 ELSE 0

\* results.sort(comparator) when the comparator is consistent: stable
RECURSIVE InsertSimilarityDesc(_, _)
InsertSimilarityDesc(sorted, x) ==
    IF Len(sorted) = 0 THEN <<x>>
    ELSE IF CompareSimilarity(sorted[Len(sorted)], x) <= 0 THEN Append(sorted, x)
    ELSE Append(InsertSimilarityDesc(SubSeq(sorted, 1, Len(sorted) - 1), x),
                sorted[Len(sorted)])

RECURSIVE SortSimilarityDesc(_)
SortSimilarityDesc(s) ==
    IF Len(s) = 0 THEN <<>>
    ELSE InsertSimilarityDesc(SortSimilarityDesc(SubSeq(s, 1, Len(s) - 1)), s[Len(s)])

\* the first n elements of every arrangement of the rows of s (a row is
\* known by its idx)
RECURSIVE ArrangedPrefixes(_, _)
ArrangedPrefixes(s, n) ==
    IF n = 0 THEN {<<>>}
    ELSE UNION {{Append(prefix, s[i]) :
                    i \in {k \in 1..Len(s) :
                              \A j \in 1..Len(prefix) : prefix[j].idx # s[k].idx}} :
                prefix \in ArrangedPrefixes(s, n - 1)}

\* Array.prototype.sort is stable (ECMAScript 2019, V8 >= 7.0): rows that
\* compare equal keep their relative order.  A stable sort is an insertion
\* sort that puts each row behind every row that does not compare greater
\* (found from the back in the ascending sorts and from the front in the
\* descending one: the same place in a sorted array).

\* .sort((a, b) => a.timestamp - b.timestamp)
RECURSIVE InsertTimestampAsc(_, _)
InsertTimestampAsc(sorted, x) ==
    IF Len(sorted) = 0 THEN <<x>>
    ELSE IF sorted[Len(sorted)].timestamp <= x.timestamp THEN Append(sorted, x)
    ELSE Append(InsertTimestampAsc(SubSeq(sorted, 1, Len(sorted) - 1), x),
                sorted[Len(sorted)])

RECURSIVE SortTimestampAsc(_)
SortTimestampAsc(s) ==
    IF Len(s) = 0 THEN <<>>
    ELSE InsertTimestampAsc(SortTimestampAsc(SubSeq(s, 1, Len(s) - 1)), s[Len(s)])

\* .sort((a, b) => b.timestamp - a.timestamp)
RECURSIVE InsertTimestampDesc(_, _)
InsertTimestampDesc(sorted, x) ==
    IF Len(sorted) = 0 THEN <<x>>
    ELSE IF Head(sorted).timestamp < x.timestamp THEN <<x>> \o sorted
    ELSE <<Head(sorted)>> \o InsertTimestampDesc(Tail(sorted), x)

RECURSIVE SortTimestampDesc(_)
SortTimestampDesc(s) ==
    IF Len(s) = 0 THEN <<>>
    ELSE InsertTimestampDesc(SortTimestampDesc(SubSeq(s, 1, Len(s) - 1)), s[Len(s)])

\* .sort((a, b) => a.created_at - b.created_at)
RECURSIVE InsertCreatedAsc(_, _)
InsertCreatedAsc(sorted, x) ==
    IF Len(sorted) = 0 THEN <<x>>
    ELSE IF sorted[Len(sorted)].created_at <= x.created_at THEN Append(sorted, x)
    ELSE Append(InsertCreatedAsc(SubSeq(sorted, 1, Len(sorted) - 1), x),
                sorted[Len(sorted)])

RECURSIVE SortCreatedAsc(_)
SortCreatedAsc(s) ==
    IF Len(s) = 0 THEN <<>>
    ELSE InsertCreatedAsc(SortCreatedAsc(SubSeq(s, 1, Len(s) - 1)), s[Len(s)])

\* The stored messages, each tagged with its position in the array.  The
\* position is the message's identity in the properties (ids can repeat).
WithIdx(msgs) ==
    [i \in 1..Len(msgs) |->
        [idx |-> i, id |-> msgs[i].id, session_id |-> msgs[i].session_id,
         role |-> msgs[i].role, content |-> msgs[i].content,
         timestamp |-> msgs[i].timestamp, is_summarized |-> msgs[i].is_summarized]]

(***************************************************************************)
(* The store: db.prepare(sql) of vector-storage.js, one operator per       *)
(* statement.  Each takes the arrays it reads.                             *)
(***************************************************************************)
\* SELECT COUNT(*) as count FROM messages WHERE session_id = ? AND is_summarized = 0
SelectCount(msgs, sessionId) ==
    Len(SelectSeq(msgs, LAMBDA m : m.session_id = sessionId /\ m.is_summarized = 0))

\* SELECT role, content FROM messages ... ORDER BY timestamp DESC LIMIT ?
\* (the rows before the final projection to {role, content})
SelectRecentRows(msgs, sessionId, limit) ==
    Slice0(SortTimestampDesc(
               SelectSeq(WithIdx(msgs),
                         LAMBDA m : m.session_id = sessionId /\ m.is_summarized = 0)),
           limit)

\* .map(m => ({ role: m.role, content: m.content }))
RoleContent(rows) == [i \in 1..Len(rows) |-> [role |-> rows[i].role, content |-> rows[i].content]]

\* SELECT summary FROM long_term_memory WHERE session_id = ? ORDER BY created_at ASC
SelectSummaryRows(mems, sessionId) ==
    SortCreatedAsc(SelectSeq(mems, LAMBDA m : m.session_id = sessionId))

\* .map(m => ({ summary: m.summary })), read back as m.summary
SummaryOf(rows) == [i \in 1..Len(rows) |-> rows[i].summary]

\* SELECT id, role, content FROM messages WHERE ... is_summarized = 0 ORDER BY timestamp ASC
\* (each row also carries idx, the position of the message it was read from)
SelectUnsummarized(msgs, sessionId) ==
    LET rows == SortTimestampAsc(
                    SelectSeq(WithIdx(msgs),
                              LAMBDA m : m.session_id = sessionId /\ m.is_summarized = 0))
    IN  [i \in 1..Len(rows) |->
            [id |-> rows[i].id, role |-> rows[i].role, content |-> rows[i].content,
             idx |-> rows[i].idx]]

\* faulty variant of FindById: the first message with that id that is not
\* summarized yet
FindByIdUnsummarized(msgs, id) ==
    IF \E i \in 1..Len(msgs) : msgs[i].id = id /\ msgs[i].is_summarized = 0
    THEN CHOOSE i \in 1..Len(msgs) :
             /\ msgs[i].id = id /\ msgs[i].is_summarized = 0
             /\ \A j \in 1..(i - 1) : ~(msgs[j].id = id /\ msgs[j].is_summarized = 0)
    ELSE 0

\* messages.find(m => m.id === id): the position of the first message with
\* that id, 0 when there is none
FindById(msgs, id) ==
    IF \E i \in 1..Len(msgs) : msgs[i].id = id
    THEN CHOOSE i \in 1..Len(msgs) :
             /\ msgs[i].id = id
             /\ \A j \in 1..(i - 1) : msgs[j].id # id
    ELSE 0

\* faulty variant of UpdateSummarized: the summarized message is taken out
\* of the array
UpdateSummarizedPrune(msgs, id) ==
    LET i == FindById(msgs, id)
    IN  IF i = 0 THEN msgs
        ELSE [k \in 1..(Len(msgs) - 1) |-> IF k < i THEN msgs[k] ELSE msgs[k + 1]]

\* UPDATE messages SET is_summarized = 1 WHERE id = ?
UpdateSummarized(msgs, id) ==
    LET i == FindById(msgs, id)
    IN  IF i = 0 THEN msgs ELSE [msgs EXCEPT ![i].is_summarized = 1]

\* db.transaction((ids) => { for (const id of ids) updateStmt.run(id); })
RECURSIVE UpdateAll(_, _)
UpdateAll(msgs, ids) ==
    IF Len(ids) = 0 THEN msgs
    ELSE UpdateAll(UpdateSummarized(msgs, Head(ids)), Tail(ids))

\* INSERT INTO messages: the push that follows the embedding request
InsertMessage(msgs, counter, sessionId, role, content, tokens, timestamp, embedding) ==
    Append(msgs, [id |-> counter, session_id |-> sessionId, role |-> role,
                  content |-> content, tokens |-> tokens, timestamp |-> timestamp,
                  is_summarized |-> 0, embedding |-> embedding])

\* INSERT INTO long_term_memory: the push that follows the embedding request
InsertMemory(mems, sessionId, summary, createdAt, embedding) ==
    Append(mems, [session_id |-> sessionId, summary |-> summary, created_at |-> createdAt,
                  embedding |-> embedding])

\* INSERT OR IGNORE INTO sessions
InsertSession(sess, sessionId, now) ==
    IF sessionId \in DOMAIN sess THEN sess
    ELSE (sessionId :> [createdAt |-> now, updatedAt |-> now]) @@ sess

\* UPDATE sessions SET updated_at = ? WHERE id = ?
TouchSession(sess, sessionId, now) ==
    IF sessionId \in DOMAIN sess THEN [sess EXCEPT ![sessionId].updatedAt = now]
    ELSE sess

(***************************************************************************)
(* server: the core functions.                                             *)
(***************************************************************************)
getMessageCount(msgs, sessionId) == SelectCount(msgs, sessionId)

\* faulty variant of getRecentRows: the rows as selected, newest first
getRecentRowsNewestFirst(msgs, sessionId, limit) == SelectRecentRows(msgs, sessionId, limit)

\* results.reverse(), as rows; getRecentHistory is their {role, content}
getRecentRows(msgs, sessionId, limit) == Reverse(SelectRecentRows(msgs, sessionId, limit))

getRecentHistory(msgs, sessionId, limit) == RoleContent(getRecentRows(msgs, sessionId, limit))

getLongTermMemory(mems, sessionId) == SummaryOf(SelectSummaryRows(mems, sessionId))

\* faulty variant of buildContext: the summary message behind the window
buildContextSummaryLast(msgs, mems, sessionId) ==
    LET longTermMemory == getLongTermMemory(mems, sessionId)
        head == <<[role |-> "system", content |-> SystemPrompt]>>
        summaryPart ==
            IF Len(longTermMemory) > 0
            THEN <<[role |-> "system",
                    content |-> SummaryHeader \o Join(longTermMemory, <<"SEP">>)]>>
            ELSE <<>>
    IN  head \o getRecentHistory(msgs, sessionId, MAX_SHORT_TERM_ROUNDS * 2)
             \o summaryPart

buildContext(msgs, mems, sessionId) ==
    LET longTermMemory == getLongTermMemory(mems, sessionId)
        head == <<[role |-> "system", content |-> SystemPrompt]>>
        summaryPart ==
            IF Len(longTermMemory) > 0
            THEN <<[role |-> "system",
                    content |-> SummaryHeader \o Join(longTermMemory, <<"SEP">>)]>>
            ELSE <<>>
    IN  head \o summaryPart
             \o getRecentHistory(msgs, sessionId, MAX_SHORT_TERM_ROUNDS * 2)

\* The comparator orders the results consistently unless a NaN similarity,
\* which it calls equal to every other, meets two similarities that differ.
ConsistentComparator(results) ==
    \/ \A k \in 1..Len(results) : results[k].similarity.kind = "num"
    \/ \A i, j \in 1..Len(results) : CompareSimilarity(results[i], results[j]) = 0

\* semanticSearch after `await getEmbedding(query)` has delivered
\* queryEmbedding: the set of results the call can produce.  A throw of
\* cosineSimilarity ends the call with an error.  With an inconsistent
\* comparator the order Array.prototype.sort leaves is implementation-
\* defined: slice(0, limit) can then hold any arrangement of any `limit` of
\* the results.  Each result also carries idx, the position of the message
\* it was computed from.
semanticSearch(msgs, sessionId, queryEmbedding, limit) ==
    LET sessionMessages ==
            SelectSeq([i \in 1..Len(msgs) |-> i], LAMBDA i : msgs[i].session_id = sessionId)
    IN  \* results: bound once, then sorted and cut
        UNION {
          IF \E k \in 1..Len(results) : results[k].similarity.kind = "throw"
          THEN {[status |-> "error", results |-> <<>>]}
          ELSE IF ConsistentComparator(results)
          THEN {[status |-> "ok", results |-> Slice0(SortSimilarityDesc(results), limit)]}
          ELSE {[status |-> "ok", results |-> sliced] :
                   sliced \in ArrangedPrefixes(results,
                                               IF limit < Len(results) THEN limit
                                               ELSE Len(results))}
          : results \in {[k \in 1..Len(sessionMessages) |->
                            [content |-> msgs[sessionMessages[k]].content,
                             role |-> msgs[sessionMessages[k]].role,
                             similarity |-> cosineSimilarity(queryEmbedding,
                                                msgs[sessionMessages[k]].embedding),
                             idx |-> sessionMessages[k]]]} }

\* faulty variant of the trigger test: fires at every count from the
\* threshold on
ShouldSummarizeFromThreshold(messageCount) == messageCount >= SUMMARY_TRIGGER_ROUNDS

\* the trigger test of the /api/chat handler
ShouldSummarize(messageCount) ==
    messageCount > 0 /\ messageCount % SUMMARY_TRIGGER_ROUNDS = 0

\* faulty variant of SkipsSummary: generateSummary without its guard
SkipsNothing(unsummarized) == FALSE

\* the guard of generateSummary: `if (unsummarized.length < 5) return;`
SkipsSummary(unsummarized) == Len(unsummarized) < MinBatch

(***************************************************************************)
(* Requests.  pc is the suspension a request is parked at:                 *)
(*   embedUser  saveMessage(user): embeddings request before the push      *)
(*   sumCall    generateSummary: completion request for the summary        *)
(*   embedSum   generateSummary: embeddings request before the memory push *)
(*   chatCall   completion request for the reply                           *)
(*   embedAsst  saveMessage(assistant): embeddings request before the push *)
(* invoked tells whether the turn has called generateSummary (history),    *)
(* status is the last response sent on the slot, userIdx the position of   *)
(* the user message the last turn on the slot stored (history), caller     *)
(* who awaits generateSummary: the chat handler or a direct call.          *)
(***************************************************************************)
IdleReq ==
    [pc |-> "idle", sessionId |-> "", message |-> NoText, now |-> 0,
     messageCount |-> 0, unsummarized |-> <<>>, pass |-> 0, summary |-> NoText,
     createdAt |-> 0, context |-> <<>>, aiResponse |-> NoText,
     invoked |-> FALSE, status |-> "none", userIdx |-> 0, caller |-> "chat"]

\* the ids handed to the marking transaction: unsummarized.map(m => m.id)
BatchIds(rows) == [i \in 1..Len(rows) |-> rows[i].id]
\* the positions of the messages a batch was read from
BatchIdx(rows) == [i \in 1..Len(rows) |-> rows[i].idx]

\* irregular events so far
Events == faults + overlaps + switches

\* messages stored, and those whose push is already under way
Pending(r) == IF req[r].pc \in {"embedUser", "embedAsst"} THEN 1 ELSE 0
Committed == Len(messages) + Pending(1) + Pending(2)

(***************************************************************************)
(* Process start: module load sets messageIdCounter from the still empty   *)
(* `messages` (so to 1), then initVectorDB -> loadData reads the files a   *)
(* previous run wrote.  LoadedStore(p) is the file a previous run leaves   *)
(* after p appends of consecutive turns on session s1 (p odd: the last     *)
(* turn's completion call failed).                                         *)
(***************************************************************************)
NoSearch ==
    [status |-> "none", sessionId |-> "", limit |-> 0, queryEmbedding |-> Undefined,
     candidates |-> 0, results |-> <<>>]

LoadedStore(p) ==
    [i \in 1..p |->
        [id |-> i, session_id |-> "s1",
         role |-> IF i % 2 = 1 THEN "user" ELSE "assistant",
         content |-> IF i % 2 = 1 THEN <<"hi">> ELSE <<"re">>,
         tokens |-> estimateTokens(IF i % 2 = 1 THEN <<"hi">> ELSE <<"re">>),
         timestamp |-> i, is_summarized |-> 0,
         embedding |-> simpleEmbedding(IF i % 2 = 1 THEN <<"hi">> ELSE <<"re">>)]]

LoadedSessions(p) ==
    IF p = 0 THEN <<>>
    ELSE ("s1" :> [createdAt |-> 1, updatedAt |-> p])

\* the process has started at time `now` from the files of a run that
\* stored `loaded` messages
InitAt(loaded, now) ==
    /\ messages = LoadedStore(loaded)
    /\ memories = <<>>
    /\ sessions = LoadedSessions(loaded)
    /\ messageIdCounter = 1
    /\ clock = now
    /\ req = [r \in Reqs |-> IdleReq]
    /\ passes = <<>>
    /\ faults = 0
    /\ overlaps = 0
    /\ switches = 0
    /\ lastSession = "s1"
    /\ found = NoSearch

\* the first Date.now() of the run is later than the last one of the run before
InitWith(loaded) == InitAt(loaded, loaded)

Init == \E loaded \in 0..MaxLoaded : InitWith(loaded)

(***************************************************************************)
(* app.post('/api/chat'), cut at its suspensions.  The steps that call     *)
(* Date.now() take d, the time that has passed since the previous call.    *)
(***************************************************************************)
\* request arrives: ensureSession, saveMessage takes Date.now(), INSERT starts
\* its embeddings request
Receive(r, sessionId, message, d, lim) ==
    /\ req[r].pc = "idle"
    /\ \A q \in Reqs : q < r => req[q].pc # "idle"
    /\ Committed + 1 <= lim.msgs
    /\ IF \E q \in Reqs : req[q].pc # "idle"
       THEN Events < lim.events /\ overlaps' = overlaps + 1
       ELSE overlaps' = overlaps
    /\ IF sessionId # lastSession
       THEN Events + (overlaps' - overlaps) < lim.events /\ switches' = switches + 1
       ELSE switches' = switches
    /\ lastSession' = sessionId
    \* no time has passed since the previous Date.now(): that was the call of
    \* another request that arrived in the same millisecond and is still
    \* waiting for its embedding
    /\ d = 0 => \E q \in Reqs : req[q].pc = "embedUser" /\ req[q].now = clock
    /\ clock' = clock + d
    /\ sessions' = InsertSession(sessions, sessionId, clock')
    /\ req' = [req EXCEPT ![r] =
                  [IdleReq EXCEPT !.pc = "embedUser", !.sessionId = sessionId,
                                  !.message = message, !.now = clock']]
    /\ UNCHANGED <<messages, memories, messageIdCounter, passes, faults, found>>

\* the step from a context build to the suspended completion request
ToChatCall(rq, msgs, mems) ==
    [rq EXCEPT !.pc = "chatCall", !.context = buildContext(msgs, mems, rq.sessionId)]

\* generateSummary returns to its caller: the chat handler goes on to
\* buildContext and the chat completion request, a direct call is over
AfterSummary(rq, msgs, mems) ==
    IF rq.caller = "chat"
    THEN ToChatCall(rq, msgs, mems)
    ELSE [IdleReq EXCEPT !.caller = "direct", !.sessionId = rq.sessionId,
                         !.invoked = TRUE]

\* embedding delivered: push the user message, touch the session, trigger
\* check, then either generateSummary up to its completion request or
\* buildContext up to the chat completion request
PushUser(r, response) ==
    LET rq == req[r]
        msgs == InsertMessage(messages, messageIdCounter, rq.sessionId, "user",
                              rq.message, estimateTokens(rq.message), rq.now,
                              getEmbedding(rq.message, response))
        messageCount == getMessageCount(msgs, rq.sessionId)
        unsummarized == SelectUnsummarized(msgs, rq.sessionId)
        rq1 == [rq EXCEPT !.messageCount = messageCount, !.userIdx = Len(msgs),
                          !.invoked = ShouldSummarize(messageCount)]
    IN  /\ rq.pc = "embedUser"
        /\ messages' = msgs
        /\ messageIdCounter' = messageIdCounter + 1
        /\ sessions' = TouchSession(sessions, rq.sessionId, rq.now)
        /\ IF rq1.invoked /\ ~SkipsSummary(unsummarized)
           THEN /\ passes' = Append(passes, [sessionId |-> rq.sessionId,
                                             batch |-> BatchIdx(unsummarized),
                                             outcome |-> "running", memory |-> 0])
                /\ req' = [req EXCEPT ![r] =
                              [rq1 EXCEPT !.pc = "sumCall",
                                          !.unsummarized = unsummarized,
                                          !.pass = Len(passes) + 1]]
           ELSE /\ passes' = passes
                /\ req' = [req EXCEPT ![r] = ToChatCall(rq1, msgs, memories)]
        /\ UNCHANGED <<clock, memories, faults, overlaps, switches, lastSession, found>>

\* summary delivered: INSERT INTO long_term_memory takes Date.now() and
\* starts its embeddings request
SummaryReply(r, summary, d) ==
    /\ req[r].pc = "sumCall"
    /\ clock' = clock + d
    /\ req' = [req EXCEPT ![r].pc = "embedSum", ![r].summary = summary,
                          ![r].createdAt = clock']
    /\ UNCHANGED <<messages, memories, sessions, messageIdCounter, passes, faults, overlaps, switches, lastSession, found>>

\* callAPI throws inside generateSummary: caught and logged, and
\* generateSummary returns
SummaryFail(r, lim) ==
    /\ req[r].pc = "sumCall"
    /\ Events < lim.events
    /\ faults' = faults + 1
    /\ passes' = [passes EXCEPT ![req[r].pass].outcome = "failed"]
    /\ req' = [req EXCEPT ![r] =
                  AfterSummary([req[r] EXCEPT !.unsummarized = <<>>, !.pass = 0],
                               messages, memories)]
    /\ UNCHANGED <<clock, messages, memories, sessions, messageIdCounter, overlaps, switches, lastSession, found>>

\* embedding delivered: push the memory, run the marking transaction over
\* the ids read at the start of the pass, and generateSummary returns
PushSummary(r, response) ==
    LET rq == req[r]
        mems == InsertMemory(memories, rq.sessionId, rq.summary, rq.createdAt,
                             getEmbedding(rq.summary, response))
        msgs == UpdateAll(messages, BatchIds(rq.unsummarized))
    IN  /\ rq.pc = "embedSum"
        /\ memories' = mems
        /\ messages' = msgs
        /\ passes' = [passes EXCEPT ![rq.pass].outcome = "ok",
                                    ![rq.pass].memory = Len(mems)]
        /\ req' = [req EXCEPT ![r] =
                      AfterSummary([rq EXCEPT !.unsummarized = <<>>, !.pass = 0,
                                              !.summary = NoText, !.createdAt = 0],
                                   msgs, mems)]
        /\ UNCHANGED <<clock, sessions, messageIdCounter, faults, overlaps, switches, lastSession, found>>

\* reply delivered: saveMessage(assistant) takes Date.now(), INSERT starts
\* its embeddings request
ChatReply(r, reply, d, lim) ==
    /\ req[r].pc = "chatCall"
    /\ Committed + 1 <= lim.msgs
    /\ clock' = clock + d
    /\ req' = [req EXCEPT ![r].pc = "embedAsst", ![r].aiResponse = reply,
                          ![r].now = clock']
    /\ UNCHANGED <<messages, memories, sessions, messageIdCounter, passes, faults, overlaps, switches, lastSession, found>>

\* faulty variant of ChatFail: the catch block takes the turn's user message
\* out of the store again
ChatFailRollback(r, lim) ==
    /\ req[r].pc = "chatCall"
    /\ Events < lim.events
    /\ faults' = faults + 1
    /\ messages' = [i \in 1..(Len(messages) - 1) |->
                       IF i < req[r].userIdx THEN messages[i] ELSE messages[i + 1]]
    /\ req' = [req EXCEPT ![r] =
                  [IdleReq EXCEPT !.status = "error", !.userIdx = req[r].userIdx]]
    /\ UNCHANGED <<clock, memories, sessions, messageIdCounter, passes, overlaps, switches, lastSession, found>>

\* callAPI throws in the handler: catch, res.status(500)
ChatFail(r, lim) ==
    /\ req[r].pc = "chatCall"
    /\ Events < lim.events
    /\ faults' = faults + 1
    /\ req' = [req EXCEPT ![r] =
                  [IdleReq EXCEPT !.status = "error", !.userIdx = req[r].userIdx]]
    /\ UNCHANGED <<clock, messages, memories, sessions, messageIdCounter, passes, overlaps, switches, lastSession, found>>

\* embedding delivered: push the assistant message, touch the session,
\* res.json
PushAsst(r, response) ==
    LET rq == req[r]
    IN  /\ rq.pc = "embedAsst"
        /\ messages' = InsertMessage(messages, messageIdCounter, rq.sessionId,
                                     "assistant", rq.aiResponse,
                                     estimateTokens(rq.aiResponse), rq.now,
                                     getEmbedding(rq.aiResponse, response))
        /\ messageIdCounter' = messageIdCounter + 1
        /\ sessions' = TouchSession(sessions, rq.sessionId, rq.now)
        /\ req' = [req EXCEPT ![r] =
                      [IdleReq EXCEPT !.status = "ok", !.userIdx = rq.userIdx]]
        /\ UNCHANGED <<clock, memories, passes, faults, overlaps, switches, lastSession, found>>

(***************************************************************************)
(* generateSummary(sessionId) called on its own, whatever the session's    *)
(* count: up to the guard's return, or up to the completion request.  The  *)
(* slot keeps the batch the call read when the guard returned.             *)
(***************************************************************************)
Summarize(r, sessionId) ==
    LET unsummarized == SelectUnsummarized(messages, sessionId)
        rq == [IdleReq EXCEPT !.caller = "direct", !.sessionId = sessionId,
                              !.invoked = TRUE, !.unsummarized = unsummarized]
    IN  /\ req[r].pc = "idle"
        /\ IF SkipsSummary(unsummarized)
           THEN /\ passes' = passes
                /\ req' = [req EXCEPT ![r] = rq]
           ELSE /\ passes' = Append(passes, [sessionId |-> sessionId,
                                             batch |-> BatchIdx(unsummarized),
                                             outcome |-> "running", memory |-> 0])
                /\ req' = [req EXCEPT ![r] =
                              [rq EXCEPT !.pc = "sumCall", !.pass = Len(passes) + 1]]
        /\ UNCHANGED <<messages, memories, sessions, messageIdCounter, clock, faults,
                       overlaps, switches, lastSession, found>>

(***************************************************************************)
(* app.post('/api/search'): semanticSearch suspends once, on the           *)
(* embeddings request for the query; the rest runs when that request has   *)
(* been answered.  The step is that rest, on the store as it is then.      *)
(* found keeps the response with the call's arguments and two of its       *)
(* locals: queryEmbedding and sessionMessages.length (candidates).         *)
(***************************************************************************)
Search(sessionId, query, limit, response) ==
    LET queryEmbedding == getEmbedding(query, response)
    IN  /\ \E outcome \in semanticSearch(messages, sessionId, queryEmbedding, limit) :
               found' = [status |-> outcome.status, sessionId |-> sessionId,
                         limit |-> limit, queryEmbedding |-> queryEmbedding,
                         candidates |-> Cardinality({i \in 1..Len(messages) :
                                            messages[i].session_id = sessionId}),
                         results |-> outcome.results]
        /\ UNCHANGED <<messages, memories, sessions, messageIdCounter, clock, req,
                       passes, faults, overlaps, switches, lastSession>>

(***************************************************************************)
(* The steps of request slot r, under the limits lim of a specification:   *)
(* msgs (messages in the store) and events (failed completion calls,       *)
(* requests admitted while another is in flight, requests for another      *)
(* session than the one before), contents (what clients send), embed       *)
(* (what the embeddings endpoint answers) and ticks (the time that can     *)
(* pass between two calls of Date.now(); the call that follows the answer  *)
(* to a completion request is later than the call before the request).     *)
(***************************************************************************)
Step(r, lim) ==
    \/ \E s \in Sessions, m \in lim.contents, d \in lim.ticks : Receive(r, s, m, d, lim)
    \/ \E response \in lim.embed : PushUser(r, response)
    \/ \E summary \in Summaries, d \in lim.ticks \ {0} : SummaryReply(r, summary, d)
    \/ SummaryFail(r, lim)
    \/ \E response \in lim.embed : PushSummary(r, response)
    \/ \E reply \in Replies, d \in lim.ticks \ {0} : ChatReply(r, reply, d, lim)
    \/ ChatFail(r, lim)
    \/ \E response \in lim.embed : PushAsst(r, response)

\* the environment of the chat specifications: the endpoint serves no
\* embeddings (every embeddings request is answered with a non-success
\* status), and two calls of Date.now() that network I/O separates return
\* different times
NoEmbeddings == {[kind |-> "status", body |-> Undefined]}
Ticking == {1}

(***************************************************************************)
(* Spec: two request slots, so that two requests can overlap.              *)
(***************************************************************************)
Limits ==
    [msgs |-> MaxMsgs, events |-> MaxEvents, contents |-> Contents,
     embed |-> NoEmbeddings, ticks |-> Ticking]

Next == \E r \in Reqs : Step(r, Limits)

Spec == Init /\ [][Next]_vars

(***************************************************************************)
(* SpecSeq: the same handler driven by a client that waits for each        *)
(* response before it sends the next request: one slot, no overlap.        *)
(***************************************************************************)
SeqLimits ==
    [msgs |-> MaxSeqMsgs, events |-> MaxEvents, contents |-> Contents,
     embed |-> NoEmbeddings, ticks |-> Ticking]

NextSeq == Step(1, SeqLimits)

SpecSeq == Init /\ [][NextSeq]_vars

(***************************************************************************)
(* SpecReload: a sequential client again, on a process that has started    *)
(* from the files of a previous run that stored MaxLoaded messages; long   *)
(* enough for two sessions to trigger in turn.                             *)
(***************************************************************************)
ReloadLimits ==
    [msgs |-> MaxReloadMsgs, events |-> MaxReloadEvents, contents |-> Contents,
     embed |-> NoEmbeddings, ticks |-> Ticking]

InitReload == InitWith(MaxLoaded)

NextReload == Step(1, ReloadLimits)

SpecReload == InitReload /\ [][NextReload]_vars

(***************************************************************************)
(* SpecOverlap: two request slots like Spec, with a smaller budget of      *)
(* irregular events: enough for one pair of overlapping requests, whose    *)
(* messages are stored out of timestamp order.                             *)
(***************************************************************************)
OverlapLimits ==
    [msgs |-> MaxMsgs, events |-> MaxOverlapEvents, contents |-> Contents,
     embed |-> NoEmbeddings, ticks |-> Ticking]

NextOverlap == \E r \in Reqs : Step(r, OverlapLimits)

SpecOverlap == Init /\ [][NextOverlap]_vars

(***************************************************************************)
(* SpecSearch: a sequential chat client and a search client, on a process  *)
(* that has started from the files of a run that stored one message less   *)
(* than the trigger threshold (the first turn summarizes them).  The       *)
(* endpoint serves no embeddings.  A query can be the empty string.        *)
(***************************************************************************)
Queries == {<<"hi">>, <<"ih">>, <<"ni">>, <<>>}

SearchLimits ==
    [msgs |-> SUMMARY_TRIGGER_ROUNDS - 1 + MaxSearchAppends, events |-> MaxSearchEvents,
     contents |-> Contents, embed |-> NoEmbeddings, ticks |-> Ticking,
     queries |-> Queries, limits |-> 0..MaxLimit]

InitSearch == InitWith(SUMMARY_TRIGGER_ROUNDS - 1)

SearchStep(lim) ==
    \E s \in Sessions, query \in lim.queries, limit \in lim.limits, response \in lim.embed :
        Search(s, query, limit, response)

NextSearch == Step(1, SearchLimits) \/ SearchStep(SearchLimits)

SpecSearch == InitSearch /\ [][NextSearch]_vars

(***************************************************************************)
(* SpecEmbed: SpecSearch with an endpoint that serves embeddings and can   *)
(* fail: each embeddings request gets any of the answers of getEmbedding's *)
(* cases.                                                                  *)
(***************************************************************************)
EmbedLimits ==
    [msgs |-> SUMMARY_TRIGGER_ROUNDS - 1 + MaxEmbedAppends, events |-> MaxEmbedEvents,
     contents |-> Contents,
     embed |-> EmbedFailures \cup {EmbedNoVector} \cup EmbedVectors,
     ticks |-> Ticking, queries |-> Contents, limits |-> 0..MaxEmbedLimit]

NextEmbed == Step(1, EmbedLimits) \/ SearchStep(EmbedLimits)

SpecEmbed == InitSearch /\ [][NextEmbed]_vars

(***************************************************************************)
(* SpecTies: two request slots, on a clock read in milliseconds: two calls *)
(* of Date.now() can return the same time.                                 *)
(***************************************************************************)
TieLimits ==
    [msgs |-> SUMMARY_TRIGGER_ROUNDS - 1 + MaxTieAppends, events |-> MaxTieEvents,
     contents |-> Contents, embed |-> NoEmbeddings, ticks |-> {0, 1}]

NextTies == \E r \in Reqs : Step(r, TieLimits)

\* the previous run's last write lies before this run's start
InitTies == InitAt(SUMMARY_TRIGGER_ROUNDS - 1, SUMMARY_TRIGGER_ROUNDS)

SpecTies == InitTies /\ [][NextTies]_vars

(***************************************************************************)
(* SpecDirect: a sequential client on a process started with no files,     *)
(* and between its turns calls of generateSummary on any session, at any   *)
(* count.                                                                  *)
(***************************************************************************)
DirectLimits ==
    [msgs |-> MaxDirectMsgs, events |-> MaxDirectEvents, contents |-> Contents,
     embed |-> NoEmbeddings, ticks |-> Ticking]

NextDirect == Step(1, DirectLimits) \/ \E s \in Sessions : Summarize(1, s)

InitDirect == InitWith(0)

SpecDirect == InitDirect /\ [][NextDirect]_vars

(***************************************************************************)
(* SpecFresh: a sequential client on a process started with no files: the  *)
(* ids of the run are unique.                                              *)
(***************************************************************************)
FreshLimits ==
    [msgs |-> MaxFreshMsgs, events |-> MaxFreshEvents, contents |-> Contents,
     embed |-> NoEmbeddings, ticks |-> Ticking]

NextFresh == Step(1, FreshLimits)

SpecFresh == InitDirect /\ [][NextFresh]_vars

(***************************************************************************)
(* Vocabulary of the properties, computed from the state alone.            *)
(***************************************************************************)
Range(s) == {s[i] : i \in 1..Len(s)}

\* positions of the unsummarized messages of a session
UnsummarizedIdx(msgs, s) ==
    {i \in 1..Len(msgs) : msgs[i].session_id = s /\ msgs[i].is_summarized = 0}

\* positions of the messages of a session with a given role
RoleIdx(msgs, s, role) ==
    {i \in 1..Len(msgs) : msgs[i].session_id = s /\ msgs[i].role = role}

\* positions of the MemoryRecords of a session
MemoryIdx(mems, s) == {i \in 1..Len(mems) : mems[i].session_id = s}

\* nothing was loaded at process start: every stored message is of this run
FreshStore == Len(messages) = messageIdCounter - 1

\* request r has just left suspension `from` in this step
Leaves(r, from) == req[r].pc = from /\ req'[r].pc # from

(***************************************************************************)
(* C1.  A session driven sequentially through the chat turn flow with      *)
(* every external call succeeding holds exactly k MemoryRecords after      *)
(* k x SUMMARY_TRIGGER_ROUNDS round trips (a round trip stores one user    *)
(* and one assistant message); after 10 round trips, exactly 1.            *)
(* Stated for SpecSeq, where one request is in flight at a time.           *)
(***************************************************************************)
C1_RecordsPerThresholdRounds ==
    \A s \in Sessions, k \in 1..2 :
        ( /\ FreshStore
          /\ faults = 0
          /\ req[1].pc = "idle"
          /\ Cardinality(RoleIdx(messages, s, "assistant")) = k * SUMMARY_TRIGGER_ROUNDS
          /\ Cardinality(RoleIdx(messages, s, "user")) = k * SUMMARY_TRIGGER_ROUNDS )
        => Cardinality(MemoryIdx(memories, s)) = k

(***************************************************************************)
(* C2.  When a user message has been appended, generateSummary is invoked  *)
(* if and only if the number of unsummarized messages of the session at    *)
(* that point is positive and divisible by SUMMARY_TRIGGER_ROUNDS; the     *)
(* step that appends an assistant message starts no pass.                  *)
(***************************************************************************)
C2_TriggerPolicy ==
    [][\A r \in Reqs :
          /\ Leaves(r, "embedUser") =>
                LET n == Cardinality(UnsummarizedIdx(messages', req[r].sessionId))
                IN  /\ req'[r].messageCount = n
                    /\ req'[r].invoked
                         <=> (n > 0 /\ n % SUMMARY_TRIGGER_ROUNDS = 0)
                    /\ req'[r].invoked <=> req'[r].pc = "sumCall"
                    /\ req'[r].invoked <=> Len(passes') = Len(passes) + 1
          /\ Leaves(r, "embedAsst") =>
                /\ passes' = passes
                /\ \A q \in Reqs : req'[q].pc = "sumCall" => req[q].pc = "sumCall"
      ]_vars

\* on a store without reloaded messages a trigger check has fired at count
\* 10, after earlier checks of the session did not fire
C2_Witness ==
    /\ FreshStore
    /\ \E r \in Reqs : /\ req[r].pc = "sumCall"
                       /\ req[r].invoked
                       /\ req[r].messageCount = SUMMARY_TRIGGER_ROUNDS
                       /\ Cardinality(RoleIdx(messages, req[r].sessionId, "user")) > 1

(***************************************************************************)
(* C3.  The step that ends a successful summarization pass persists the    *)
(* summary and marks exactly the batch read at the start of the pass:      *)
(* every message of the batch is summarized afterwards, and every other    *)
(* message (one appended while the pass was suspended included) keeps its  *)
(* flag.                                                                   *)
(***************************************************************************)
C3_MarksExactlyTheBatch ==
    [][\A r \in Reqs :
          Leaves(r, "embedSum") =>
              LET batch == Range(BatchIdx(req[r].unsummarized))
              IN  /\ Len(memories') = Len(memories) + 1
                  /\ memories'[Len(memories')].session_id = req[r].sessionId
                  /\ \A i \in batch : messages'[i].is_summarized = 1
                  /\ \A i \in (1..Len(messages)) \ batch :
                         messages'[i].is_summarized = messages[i].is_summarized
      ]_vars

(***************************************************************************)
(* C4.  When the completion call of a summarization pass fails, no         *)
(* MemoryRecord is persisted, no message changes its flag and the turn     *)
(* goes on to the context build and the chat completion call; and the      *)
(* batch of a failed pass is contained in the batch of the next pass that  *)
(* fires for the same session.                                             *)
(***************************************************************************)
FailedPassStep(r) ==
    /\ Leaves(r, "sumCall")
    /\ passes'[req[r].pass].outcome = "failed"

NextPassOf(i, j) ==
    /\ i < j
    /\ passes[j].sessionId = passes[i].sessionId
    /\ \A k \in (i + 1)..(j - 1) : passes[k].sessionId # passes[i].sessionId

C4_FailedBatchReconsidered ==
    \A i, j \in 1..Len(passes) :
        (passes[i].outcome = "failed" /\ NextPassOf(i, j))
        => Range(passes[i].batch) \subseteq Range(passes[j].batch)

C4_FailedPassLeavesBatch ==
    /\ [][\A r \in Reqs :
             FailedPassStep(r) =>
                 /\ memories' = memories
                 /\ messages' = messages
                 /\ req'[r].pc = "chatCall"
                 /\ req'[r].context = buildContext(messages, memories, req[r].sessionId)
         ]_vars
    /\ []C4_FailedBatchReconsidered

(***************************************************************************)
(* C5.  While one request is between its user-message append and the end   *)
(* of its summarization and marking, no other request for the same         *)
(* session appends a message, runs a trigger check or starts a pass.       *)
(***************************************************************************)
InCriticalSection(r) == req[r].pc \in {"sumCall", "embedSum"}

C5_PerSessionMutualExclusion ==
    [][\A r, q \in Reqs :
          ( /\ r # q
            /\ InCriticalSection(r)
            /\ req[q].sessionId = req[r].sessionId )
          => ~(Leaves(q, "embedUser") \/ Leaves(q, "embedAsst"))
      ]_vars

(***************************************************************************)
(* C6.  The batches consumed by successful summarization passes are        *)
(* pairwise disjoint: no message is in the transcript of more than one     *)
(* persisted MemoryRecord.                                                 *)
(***************************************************************************)
C6_BatchesDisjoint ==
    \A i, j \in 1..Len(passes) :
        (i < j /\ passes[i].outcome = "ok" /\ passes[j].outcome = "ok")
        => Range(passes[i].batch) \cap Range(passes[j].batch) = {}

(***************************************************************************)
(* C7.  Right after a summarization pass has succeeded, with nothing else  *)
(* interleaved on the session (SpecSeq), the session has no unsummarized   *)
(* message.                                                                *)
(***************************************************************************)
C7_CountZeroAfterPass ==
    [][Leaves(1, "embedSum") =>
          /\ Cardinality(UnsummarizedIdx(messages', req[1].sessionId)) = 0
          /\ getMessageCount(messages', req[1].sessionId) = 0
      ]_vars

(***************************************************************************)
(* C8.  buildContext returns the fixed system instruction first; for a     *)
(* session without MemoryRecords no other system message; for a session    *)
(* with MemoryRecords exactly one more system message, in second place     *)
(* before the window, holding every summary of the session in ascending    *)
(* created_at order.                                                       *)
(***************************************************************************)
Min(a, b) == IF a < b THEN a ELSE b

\* text is the header followed by the summaries of the records order[1..n],
\* with one separator between two summaries
HoldsSummaries(text, order) ==
    LET n == Len(order)
        body == SubSeq(text, Len(SummaryHeader) + 1, Len(text))
    IN  /\ SubSeq(text, 1, Len(SummaryHeader)) = SummaryHeader
        /\ Len(body) = 2 * n - 1
        /\ \A i \in 1..n : <<body[2 * i - 1]>> = memories[order[i]].summary
        /\ \A i \in 1..(n - 1) : body[2 * i] = "SEP"

\* order lists every record of mem once, by ascending created_at
AscendingOrder(order, mem) ==
    /\ Range(order) = mem
    /\ \A i, j \in 1..Len(order) : i < j =>
           /\ order[i] # order[j]
           /\ memories[order[i]].created_at <= memories[order[j]].created_at

C8_ContextShape ==
    \A s \in Sessions :
    \A ctx \in {buildContext(messages, memories, s)} :
        LET mem == MemoryIdx(memories, s)
            n == Cardinality(mem)
            window == Min(MAX_SHORT_TERM_ROUNDS * 2,
                          Cardinality(UnsummarizedIdx(messages, s)))
        IN  /\ Len(ctx) = 1 + (IF n > 0 THEN 1 ELSE 0) + window
            /\ ctx[1] = [role |-> "system", content |-> SystemPrompt]
            /\ n = 0 => \A i \in 2..Len(ctx) : ctx[i].role # "system"
            /\ n > 0 =>
                   /\ ctx[2].role = "system"
                   /\ \A i \in 3..Len(ctx) : ctx[i].role # "system"
                   /\ \E order \in [1..n -> mem] :
                          /\ AscendingOrder(order, mem)
                          /\ HoldsSummaries(ctx[2].content, order)
            /\ (req[1].pc = "chatCall" /\ req[1].sessionId = s) => req[1].context = ctx

\* a turn has built its context over two MemoryRecords with different texts
C8_Witness ==
    /\ req[1].pc = "chatCall"
    /\ Cardinality(MemoryIdx(memories, req[1].sessionId)) = 2
    /\ req[1].context[2] =
           [role |-> "system", content |-> SummaryHeader \o <<"S2", "SEP", "S1">>]
    /\ Len(req[1].context) > 2

(***************************************************************************)
(* C9.  getRecentHistory(sessionId, limit) returns the min(limit, n)       *)
(* unsummarized messages of the session with the greatest timestamps,      *)
(* oldest first; so the window of a built context holds at most            *)
(* MAX_SHORT_TERM_ROUNDS * 2 messages.                                     *)
(***************************************************************************)
CheckedLimits == (0..MaxLimit) \cup {MAX_SHORT_TERM_ROUNDS * 2}

RecentIsLatest(s, limit) ==
    \A rows \in {getRecentRows(messages, s, limit)} :
    \A history \in {getRecentHistory(messages, s, limit)} :
    \A unsummarized \in {UnsummarizedIdx(messages, s)} :
    \A chosen \in {{rows[i].idx : i \in 1..Len(rows)}} :
        /\ Len(rows) = Min(limit, Cardinality(unsummarized))
        /\ Cardinality(chosen) = Len(rows)
        /\ chosen \subseteq unsummarized
        \* oldest first: each row is no newer than the row behind it
        /\ \A i \in 1..(Len(rows) - 1) :
               messages[rows[i].idx].timestamp <= messages[rows[i + 1].idx].timestamp
        \* the latest: no message left out is newer than the oldest row
        /\ Len(rows) > 0 =>
               \A u \in unsummarized \ chosen :
                   messages[u].timestamp <= messages[rows[1].idx].timestamp
        /\ Len(history) = Len(rows)
        /\ \A i \in 1..Len(rows) :
               /\ history[i].role = messages[rows[i].idx].role
               /\ history[i].content = messages[rows[i].idx].content
               /\ DOMAIN history[i] = {"role", "content"}

WindowOf(context) == SelectSeq(context, LAMBDA m : m.role # "system")

C9_RecentWindow ==
    /\ \A s \in Sessions, limit \in CheckedLimits : RecentIsLatest(s, limit)
    /\ \A r \in Reqs : Len(WindowOf(req[r].context)) <= MAX_SHORT_TERM_ROUNDS * 2

\* five unsummarized messages with five timestamps, stored out of timestamp
\* order; limit 4 returns the four latest, oldest first
C9_Witness ==
    \E s \in Sessions :
        LET rows == getRecentRows(messages, s, MaxLimit)
            unsummarized == UnsummarizedIdx(messages, s)
        IN  /\ Cardinality(unsummarized) = MaxLimit + 1
            /\ Len(rows) = MaxLimit
            /\ \A i \in 1..(Len(rows) - 1) : rows[i].timestamp < rows[i + 1].timestamp
            /\ \E u \in unsummarized : messages[u].timestamp < rows[1].timestamp
            /\ \E i \in 1..(Len(rows) - 1) : rows[i].idx > rows[i + 1].idx

\* a context was built from more unsummarized messages than the window holds
C9_WitnessWindow ==
    \E r \in Reqs :
        /\ req[r].pc = "chatCall"
        /\ Len(WindowOf(req[r].context)) = MAX_SHORT_TERM_ROUNDS * 2
        /\ Cardinality(UnsummarizedIdx(messages, req[r].sessionId))
               > MAX_SHORT_TERM_ROUNDS * 2

(***************************************************************************)
(* C10.  When the chat completion call of a turn fails, the turn ends      *)
(* with an error response, the store is left as it is (the user message    *)
(* of the turn stays stored with its flag, no assistant message is         *)
(* appended).                                                              *)
(***************************************************************************)
C10_ChatFailureKeepsUserMessage ==
    [][\A r \in Reqs :
          (req[r].pc = "chatCall" /\ req'[r].pc = "idle") =>
              LET u == req[r].userIdx
              IN  /\ req'[r].status = "error"
                  /\ messages' = messages
                  /\ memories' = memories
                  /\ u \in 1..Len(messages')
                  /\ messages'[u].role = "user"
                  /\ messages'[u].session_id = req[r].sessionId
                  /\ messages'[u].content = req[r].message
      ]_vars

\* a turn has failed and its user message is the last message of the store
C10_Witness ==
    \E r \in Reqs :
        /\ req[r].pc = "idle"
        /\ req[r].status = "error"
        /\ req[r].userIdx = Len(messages)
        /\ messages[req[r].userIdx].role = "user"

(***************************************************************************)
(* C11.  A search returns min(limit, n) results, n the number of stored    *)
(* messages of the session whatever their flag; every result is a message  *)
(* of that session, none twice; and each result's score is at least the    *)
(* score of the result behind it.                                          *)
(***************************************************************************)
C11_SearchResults ==
    [][found' # found =>
          LET candidates == {i \in 1..Len(messages) :
                                messages[i].session_id = found'.sessionId}
              results == found'.results
          IN  /\ found'.status = "ok"
              /\ Len(results) = Min(found'.limit, Cardinality(candidates))
              /\ \A k \in 1..Len(results) : results[k].idx \in candidates
              /\ \A k, l \in 1..Len(results) : k # l => results[k].idx # results[l].idx
              /\ \A k \in 1..(Len(results) - 1) :
                     SimilarityGeq(results[k].similarity, results[k + 1].similarity)
      ]_vars

(***************************************************************************)
(* C12.  Every value getEmbedding has returned is a vector of numbers:     *)
(* the embedding stored with each message and each MemoryRecord, and the   *)
(* query embedding of a search.                                            *)
(***************************************************************************)
C12_EmbedReturnsVector ==
    /\ \A i \in 1..Len(messages) : messages[i].embedding.defined
    /\ \A i \in 1..Len(memories) : memories[i].embedding.defined
    /\ found.status # "none" => found.queryEmbedding.defined

(***************************************************************************)
(* C13.  The vectors that can be compared with each other have one length: *)
(* the embeddings stored with the messages of a session, and the query     *)
(* embedding of a search in that session.                                  *)
(***************************************************************************)
ComparedVectors(s) ==
    {messages[i].embedding : i \in {j \in 1..Len(messages) : messages[j].session_id = s}}
        \cup (IF found.status # "none" /\ found.sessionId = s
              THEN {found.queryEmbedding} ELSE {})

C13_OneDimensionality ==
    \A s \in Sessions :
        \A v, w \in {u \in ComparedVectors(s) : u.defined} : v.dim = w.dim

(***************************************************************************)
(* C14.  No two stored messages have the same id, also on a process that   *)
(* has started from the files of a previous run and appends further        *)
(* messages.                                                               *)
(***************************************************************************)
C14_UniqueIds ==
    \A i, j \in 1..Len(messages) : i # j => messages[i].id # messages[j].id

(***************************************************************************)
(* C15.  A stored message never changes, but for its flag going from       *)
(* unsummarized to summarized: in every step every stored message stays    *)
(* at its place with its id, session, role, content, tokens, timestamp     *)
(* and embedding, and its flag does not go back.                           *)
(***************************************************************************)
C15_MessagesImmutable ==
    [][/\ Len(messages') >= Len(messages)
       /\ \A i \in 1..Len(messages) :
              /\ [messages'[i] EXCEPT !.is_summarized = 0]
                     = [messages[i] EXCEPT !.is_summarized = 0]
              /\ messages'[i].is_summarized >= messages[i].is_summarized
      ]_vars

\* a pass has marked a message that an earlier run stored, and the state
\* holds messages appended since
C15_Witness ==
    /\ \E i \in 1..Len(messages) : messages[i].is_summarized = 1
    /\ \E i \in 1..Len(messages) : messages[i].is_summarized = 0
    /\ \E i \in 1..Len(passes) : passes[i].outcome = "ok"

(***************************************************************************)
(* C16.  Marking is idempotent: the marking transaction run on ids whose   *)
(* messages are all summarized changes nothing, and run twice on the same  *)
(* ids it leaves the store as one run does.  Checked on every reachable    *)
(* store for the batch of each session, all ids of each session and every  *)
(* single id.                                                              *)
(***************************************************************************)
MarkedIds ==
    {BatchIds(SelectUnsummarized(messages, s)) : s \in Sessions}
        \cup {BatchIds(SelectSeq(messages, LAMBDA m : m.session_id = s)) : s \in Sessions}
        \cup {<<id>> : id \in 0..(Len(messages) + 1)}

C16_MarkingIdempotent ==
    \A ids \in MarkedIds :
    \A once \in {UpdateAll(messages, ids)} :
        /\ UpdateAll(once, ids) = once
        /\ (\A i \in 1..Len(messages) :
                messages[i].id \in Range(ids) => messages[i].is_summarized = 1)
           => once = messages

\* a store where two messages share an id, one of them summarized, the other
\* not: marking that id again finds the summarized one
C16_Witness ==
    \E i, j \in 1..Len(messages) :
        /\ i < j
        /\ messages[i].id = messages[j].id
        /\ messages[i].is_summarized = 1
        /\ messages[j].is_summarized = 0

(***************************************************************************)
(* C17.  A step of a request for one session leaves every other session    *)
(* as it was: its messages with their flags, its unsummarized count and    *)
(* its MemoryRecords.                                                      *)
(***************************************************************************)
SessionView(msgs, mems, s) ==
    [messages |-> SelectSeq(msgs, LAMBDA m : m.session_id = s),
     count |-> getMessageCount(msgs, s),
     memories |-> SelectSeq(mems, LAMBDA m : m.session_id = s)]

\* the session the step of slot r works for
StepSession(r) == IF req[r].pc = "idle" THEN req'[r].sessionId ELSE req[r].sessionId

C17_SessionsIndependent ==
    [][\A r \in Reqs :
          req'[r] # req[r] =>
              \A other \in Sessions \ {StepSession(r)} :
                  SessionView(messages', memories', other)
                      = SessionView(messages, memories, other)
      ]_vars

(***************************************************************************)
(* C18.  The messages of a session are stored in timestamp order: a        *)
(* message's timestamp is not less than that of any message of the session *)
(* stored before it.                                                       *)
(***************************************************************************)
C18_TimestampsFollowInsertion ==
    \A i, j \in 1..Len(messages) :
        (i < j /\ messages[i].session_id = messages[j].session_id)
        => messages[i].timestamp <= messages[j].timestamp

(***************************************************************************)
(* C19.  When the unsummarized messages of a session are stored in         *)
(* timestamp order and some of them carry the same timestamp,              *)
(* getRecentHistory returns the last min(limit, n) of them in insertion    *)
(* order: messages of one timestamp keep their insertion order, and a      *)
(* limit that cuts through them keeps the later-inserted ones.             *)
(***************************************************************************)
\* the positions of the unsummarized messages of a session, in insertion order
InsertionOrder(s) ==
    SelectSeq([i \in 1..Len(messages) |-> i],
              LAMBDA i : messages[i].session_id = s /\ messages[i].is_summarized = 0)

C19_TiesKeepInsertionOrder ==
    \A s \in Sessions, limit \in CheckedLimits :
    \A stored \in {InsertionOrder(s)} :
        (\A k \in 1..(Len(stored) - 1) :
             messages[stored[k]].timestamp <= messages[stored[k + 1]].timestamp)
        => BatchIdx(getRecentRows(messages, s, limit))
               = SubSeq(stored, Len(stored) - Min(limit, Len(stored)) + 1, Len(stored))

(***************************************************************************)
(* C20.  A call of generateSummary that reads fewer than 5 unsummarized    *)
(* messages returns at once: no completion request is pending, no memory   *)
(* is stored, no message is marked and no pass is opened.  So every pass   *)
(* has a batch of at least 5 messages, and every memory is the memory of   *)
(* such a pass.                                                            *)
(***************************************************************************)
C20_SmallBatchSkipped ==
    [][/\ \A r \in Reqs :
              (/\ req[r].pc = "idle"
               /\ req'[r] # req[r]
               /\ req'[r].caller = "direct"
               /\ Len(SelectUnsummarized(messages, req'[r].sessionId)) < MinBatch)
              => /\ req'[r].pc = "idle"
                 /\ messages' = messages
                 /\ memories' = memories
                 /\ passes' = passes
       /\ \A p \in 1..Len(passes') : Len(passes'[p].batch) >= MinBatch
       /\ \A k \in 1..Len(memories') :
              \E p \in 1..Len(passes') :
                  passes'[p].memory = k /\ Len(passes'[p].batch) >= MinBatch
      ]_vars

\* a direct call has returned at the guard, from a batch that was not empty
C20_Witness ==
    \E r \in Reqs :
        /\ req[r].pc = "idle"
        /\ req[r].caller = "direct"
        /\ req[r].pass = 0
        /\ Len(req[r].unsummarized) \in 1..(MinBatch - 1)

(***************************************************************************)
(* C21.  The context a turn hands to the chat completion call ends with    *)
(* the user message of that turn: its last element has role user and the   *)
(* submitted text, and it is the row the turn stored, whether the turn ran *)
(* no summarization pass, a failed one or a successful one.                *)
(***************************************************************************)
\* the position of the message the last element of the recent window of a
\* session is read from; 0 when the window is empty
LastRecentIdx(msgs, s) ==
    LET idx == BatchIdx(getRecentRows(msgs, s, MAX_SHORT_TERM_ROUNDS * 2))
    IN  IF Len(idx) = 0 THEN 0 ELSE idx[Len(idx)]

C21_ContextEndsWithUserMessage ==
    [][\A r \in Reqs :
          (req[r].pc # "chatCall" /\ req'[r].pc = "chatCall") =>
              LET ctx == req'[r].context
              IN  /\ ctx[Len(ctx)] = [role |-> "user", content |-> req'[r].message]
                  /\ LastRecentIdx(messages', req'[r].sessionId) = req'[r].userIdx
      ]_vars

(***************************************************************************)
(* C22.  Every message whose is_summarized flag is set is in the batch of  *)
(* a pass whose summary is stored as a memory of the message's session.    *)
(***************************************************************************)
\* pass p has stored its summary as a memory of session s
CoveringPass(p, s) ==
    /\ passes[p].outcome = "ok"
    /\ passes[p].memory \in 1..Len(memories)
    /\ memories[passes[p].memory].session_id = s

C22_MarkedMessagesCovered ==
    \A i \in 1..Len(messages) :
        messages[i].is_summarized = 1 =>
            \E p \in 1..Len(passes) :
                /\ CoveringPass(p, messages[i].session_id)
                /\ i \in Range(passes[p].batch)

====
